---- MODULE Spec2Model ----
(***************************************************************************)
(* verboselib: the gettext tool pipeline of verboselib/cli/gettext_tools.py *)
(*                                                                         *)
(* Texts that the code processes character by character (tool stdout) are  *)
(* sequences of one-character strings.  Opaque texts (argument tokens,     *)
(* stderr, executable names) are strings.                                  *)
(***************************************************************************)
EXTENDS Integers, Sequences, FiniteSets, TLC

VARIABLES
  installed,   \* the executables find_executable can resolve
  probed,      \* the executables validate_gettext_tools_exist has probed, in order
  pc,          \* position of the sequential caller of the stages
  failedAt,    \* the stage whose error reached the caller, or "none"
  runs,        \* external process runs per stage
  call,        \* the frame of the last stage call
  text,        \* input of strip_translations_header
  stripped,    \* strip_translations_header(text)
  restripped,  \* strip_translations_header(stripped)
  phase        \* position of the header-stripping caller

vars == <<installed, probed, pc, failedAt, runs, call,
          text, stripped, restripped, phase>>

pipelineVars == <<installed, probed, pc, failedAt, runs, call>>
stripVars    == <<text, stripped, restripped, phase>>

----------------------------------------------------------------------------
(* Bounds *)

MaxLen      == 7   \* longest text given to strip_translations_header
MaxKeywords == 2   \* longest keyword list
MaxExtras   == 2   \* longest extra argument list
MaxStatus   == 1   \* largest exit status

----------------------------------------------------------------------------
(* Texts *)

LF == "\n"
CR == "\r"

Chars == {"a", LF, CR}

Texts(n) == UNION {[1..k -> Chars] : k \in 0..n}

\* str.splitlines(): breaks at "\n", "\r" and "\r\n" (one break); the break
\* characters are not kept; a final break yields no trailing empty line.
RECURSIVE SplitFrom(_, _, _)
SplitFrom(s, i, cur) ==
  IF i > Len(s)
    THEN IF cur = <<>> THEN <<>> ELSE <<cur>>
    ELSE IF s[i] = CR /\ i < Len(s) /\ s[i + 1] = LF
      THEN <<cur>> \o SplitFrom(s, i + 2, <<>>)
      ELSE IF s[i] \in {LF, CR}
        THEN <<cur>> \o SplitFrom(s, i + 1, <<>>)
        ELSE SplitFrom(s, i + 1, Append(cur, s[i]))

splitlines(s) == SplitFrom(s, 1, <<>>)

\* itertools.dropwhile(len, lines): drops the leading lines of non-zero
\* length and yields every line from the first empty one on.
RECURSIVE dropwhile_len(_)
dropwhile_len(lines) ==
  IF lines = <<>> THEN <<>>
  ELSE IF Len(Head(lines)) # 0 THEN dropwhile_len(Tail(lines))
  ELSE lines

\* "\n".join(lines)
RECURSIVE join(_)
join(lines) ==
  IF lines = <<>> THEN <<>>
  ELSE IF Len(lines) = 1 THEN Head(lines)
  ELSE Head(lines) \o <<LF>> \o join(Tail(lines))

\* A variant that also consumes the separating blank line.
strip_dropping_separator(translations) ==
  LET rest == dropwhile_len(splitlines(translations))
  IN  join(IF rest = <<>> THEN <<>> ELSE Tail(rest))

\* A variant that gives the input back when it finds no blank line.
strip_keeping_unseparated(translations) ==
  LET lines == splitlines(translations)
      rest  == dropwhile_len(lines)
  IN  IF rest = <<>> THEN translations ELSE join(rest)

\* A variant that gives the rest of the input back verbatim.
strip_verbatim(translations) ==
  LET lines == splitlines(translations)
  IN  IF lines = <<>> \/ Len(Head(lines)) = 0
        THEN translations
        ELSE join(dropwhile_len(lines))

strip_translations_header(translations) ==
  join(dropwhile_len(splitlines(translations)))

\* normalize_eols: every line-ending variant becomes "\n".
RECURSIVE NormalizeFrom(_, _)
NormalizeFrom(s, i) ==
  IF i > Len(s) THEN <<>>
  ELSE IF s[i] = CR /\ i < Len(s) /\ s[i + 1] = LF
    THEN <<LF>> \o NormalizeFrom(s, i + 2)
    ELSE IF s[i] = CR
      THEN <<LF>> \o NormalizeFrom(s, i + 1)
      ELSE <<s[i]>> \o NormalizeFrom(s, i + 1)

normalize_eols(raw) == NormalizeFrom(raw, 1)

----------------------------------------------------------------------------
(* Values *)

None        == [kind |-> "None"]
Nothing     == [kind |-> "nothing"]     \* no value: the call raised
Str(chars)  == [kind |-> "str", chars |-> chars]
NoError     == [kind |-> "none"]

OSError(executable_name) ==
  [kind |-> "OSError", executable |-> executable_name,
   hint |-> "gettext tools 0.15 or newer"]

RuntimeError(tool_name, status, errors) ==
  [kind |-> "RuntimeError", tool |-> tool_name, status |-> status,
   text |-> errors]

SeqsUpTo(S, n) == UNION {[1..k -> S] : k \in 0..n}

----------------------------------------------------------------------------
(* Toolchain availability check *)

GETTEXT_TOOLS_STATUS_OK == 0

GETTEXT_TOOLS_EXECUTABLES ==
  <<"xgettext", "msguniq", "msgmerge", "msgattrib", "msgfmt">>

Executables == {GETTEXT_TOOLS_EXECUTABLES[i] : i \in DOMAIN GETTEXT_TOOLS_EXECUTABLES}

\* utils.find_executable: the resolved program, or None
find_executable(name, resolvable) ==
  IF name \in resolvable THEN [kind |-> "path", name |-> name] ELSE None

\* The loop of validate_gettext_tools_exist from its i-th iteration on.
RECURSIVE ValidateFrom(_, _, _)
ValidateFrom(i, seen, resolvable) ==
  IF i > Len(GETTEXT_TOOLS_EXECUTABLES)
    THEN [probed |-> seen, outcome |-> "returned", error |-> NoError]
    ELSE LET executable_name == GETTEXT_TOOLS_EXECUTABLES[i]
         IN  IF find_executable(executable_name, resolvable) = None
               THEN [probed  |-> Append(seen, executable_name),
                     outcome |-> "raised",
                     error   |-> OSError(executable_name)]
               ELSE ValidateFrom(i + 1, Append(seen, executable_name), resolvable)

\* A variant that probes every executable and reports the last miss.
validate_reporting_last_missing(resolvable) ==
  LET missing == {i \in DOMAIN GETTEXT_TOOLS_EXECUTABLES :
                    find_executable(GETTEXT_TOOLS_EXECUTABLES[i], resolvable) = None}
      last    == CHOOSE i \in missing : \A j \in missing : j <= i
  IN  IF missing = {}
        THEN [probed |-> GETTEXT_TOOLS_EXECUTABLES, outcome |-> "returned",
              error |-> NoError]
        ELSE [probed |-> GETTEXT_TOOLS_EXECUTABLES, outcome |-> "raised",
              error |-> OSError(GETTEXT_TOOLS_EXECUTABLES[last])]

validate_gettext_tools_exist(resolvable) == ValidateFrom(1, <<>>, resolvable)

----------------------------------------------------------------------------
(* Tool output classifier *)

\* A variant that treats every non-zero status as fatal.
tool_output_fatal_on_status(args, proc) ==
  LET content == proc.stdout
      errors  == proc.stderr
      status  == proc.status
  IN  IF status # GETTEXT_TOOLS_STATUS_OK
        THEN [popen |-> <<args>>, outcome |-> "raised",
              error |-> RuntimeError(args[1], status, errors),
              warned |-> <<>>, value |-> Nothing]
        ELSE [popen |-> <<args>>, outcome |-> "returned", error |-> NoError,
              warned |-> IF errors # "" THEN <<errors>> ELSE <<>>,
              value |-> Str(IF content # <<>> THEN normalize_eols(content)
                                              ELSE content)]

\* A variant that forwards stderr to the sink before looking at the status.
tool_output_warning_first(args, proc) ==
  LET content == proc.stdout
      errors  == proc.stderr
      status  == proc.status
      warned  == IF errors # "" THEN <<errors>> ELSE <<>>
  IN  IF errors # "" /\ status # GETTEXT_TOOLS_STATUS_OK
        THEN [popen |-> <<args>>, outcome |-> "raised",
              error |-> RuntimeError(args[1], status, errors),
              warned |-> warned, value |-> Nothing]
        ELSE [popen |-> <<args>>, outcome |-> "returned", error |-> NoError,
              warned |-> warned,
              value |-> Str(IF content # <<>> THEN normalize_eols(content)
                                              ELSE content)]

\* get_gettext_tool_output(args), with proc the triple popen_wrapper(args)
\* returns.  popen: the process runs made; warned: the texts given to
\* print_err.
get_gettext_tool_output(args, proc) ==
  LET content == proc.stdout
      errors  == proc.stderr
      status  == proc.status
      popen   == <<args>>
  IN  IF errors # ""
        THEN IF status # GETTEXT_TOOLS_STATUS_OK
               THEN [popen |-> popen, outcome |-> "raised",
                     error |-> RuntimeError(args[1], status, errors),
                     warned |-> <<>>, value |-> Nothing]
               ELSE [popen |-> popen, outcome |-> "returned",
                     error |-> NoError, warned |-> <<errors>>,
                     value |-> Str(IF content # <<>>
                                     THEN normalize_eols(content)
                                     ELSE content)]
        ELSE [popen |-> popen, outcome |-> "returned",
              error |-> NoError, warned |-> <<>>,
              value |-> Str(IF content # <<>>
                              THEN normalize_eols(content)
                              ELSE content)]

----------------------------------------------------------------------------
(* Tool invocation builders.  Every argument carries where it comes from:  *)
(* the tool name, a structured flag (a literal or an option value of the   *)
(* builder), an extra raw argument, or a stringified path.                 *)

Tool(t)    == [kind |-> "tool",  tok |-> t]
Flag(t)    == [kind |-> "flag",  tok |-> t]
Extra(t)   == [kind |-> "extra", tok |-> t]
PathArg(t) == [kind |-> "path",  tok |-> t]

Tokens(args) == [i \in DOMAIN args |-> args[i].tok]
Kinds(args)  == [i \in DOMAIN args |-> args[i].kind]
Extras(extra_args) == [i \in DOMAIN extra_args |-> Extra(extra_args[i])]

\* text.stringify_path: the textual form of a path object
stringify_path(path) == path.name

_make_xgettext_args(source_file_path, domain, keywords, no_wrap, no_location, extra_args) ==
  LET a0 == <<Tool("xgettext"), Flag("-d"), Flag(domain),
              Flag("--from-code=UTF-8"), Flag("--add-comments=Translators"),
              Flag("--output=-")>>
      a1 == a0 \o [i \in DOMAIN keywords |-> Flag("--keyword=" \o keywords[i])]
      a2 == IF no_wrap THEN Append(a1, Flag("--no-wrap")) ELSE a1
      a3 == IF no_location THEN Append(a2, Flag("--no-location")) ELSE a2
      a4 == IF extra_args # <<>> THEN a3 \o Extras(extra_args) ELSE a3
  IN  Append(a4, PathArg(stringify_path(source_file_path)))

_make_msguniq_args(pot_file_path, no_wrap, no_location, extra_args) ==
  LET a0 == <<Tool("msguniq"), Flag("--to-code=utf-8")>>
      a1 == IF no_wrap THEN Append(a0, Flag("--no-wrap")) ELSE a0
      a2 == IF no_location THEN Append(a1, Flag("--no-location")) ELSE a1
      a3 == IF extra_args # <<>> THEN a2 \o Extras(extra_args) ELSE a2
  IN  Append(a3, PathArg(stringify_path(pot_file_path)))

\* A variant that passes the template before the catalog.
make_msgmerge_args_swapped(po_file_path, pot_file_path, no_wrap, no_location, extra_args) ==
  LET a0 == <<Tool("msgmerge"), Flag("-q"), Flag("--previous")>>
      a1 == IF no_wrap THEN Append(a0, Flag("--no-wrap")) ELSE a0
      a2 == IF no_location THEN Append(a1, Flag("--no-location")) ELSE a1
      a3 == IF extra_args # <<>> THEN a2 \o Extras(extra_args) ELSE a2
      a4 == Append(a3, PathArg(stringify_path(pot_file_path)))
  IN  Append(a4, PathArg(stringify_path(po_file_path)))

_make_msgmerge_args(po_file_path, pot_file_path, no_wrap, no_location, extra_args) ==
  LET a0 == <<Tool("msgmerge"), Flag("-q"), Flag("--previous")>>
      a1 == IF no_wrap THEN Append(a0, Flag("--no-wrap")) ELSE a0
      a2 == IF no_location THEN Append(a1, Flag("--no-location")) ELSE a1
      a3 == IF extra_args # <<>> THEN a2 \o Extras(extra_args) ELSE a2
      a4 == Append(a3, PathArg(stringify_path(po_file_path)))
  IN  Append(a4, PathArg(stringify_path(pot_file_path)))

_make_msgattrib_args(po_file_path, no_wrap, no_location, extra_args) ==
  LET a0 == <<Tool("msgattrib"), Flag("--no-obsolete")>>
      a1 == IF no_wrap THEN Append(a0, Flag("--no-wrap")) ELSE a0
      a2 == IF no_location THEN Append(a1, Flag("--no-location")) ELSE a1
      a3 == IF extra_args # <<>> THEN a2 \o Extras(extra_args) ELSE a2
      po_file_path_str == stringify_path(po_file_path)
  IN  a3 \o <<Flag("-o"), PathArg(po_file_path_str), PathArg(po_file_path_str)>>

\* A variant that splices the extras in after the paths.
make_msgfmt_args_extras_last(mo_file_path, po_file_path, fuzzy, extra_args) ==
  LET a0 == <<Tool("msgfmt"), Flag("--check-format")>>
      a1 == IF fuzzy THEN Append(a0, Flag("-f")) ELSE a0
      a2 == a1 \o <<Flag("-o"), PathArg(stringify_path(mo_file_path)),
                    PathArg(stringify_path(po_file_path))>>
  IN  IF extra_args # <<>> THEN a2 \o Extras(extra_args) ELSE a2

_make_msgfmt_args(mo_file_path, po_file_path, fuzzy, extra_args) ==
  LET a0 == <<Tool("msgfmt"), Flag("--check-format")>>
      a1 == IF fuzzy THEN Append(a0, Flag("-f")) ELSE a0
      a2 == IF extra_args # <<>> THEN a1 \o Extras(extra_args) ELSE a1
  IN  a2 \o <<Flag("-o"), PathArg(stringify_path(mo_file_path)),
              PathArg(stringify_path(po_file_path))>>

----------------------------------------------------------------------------
(* Pipeline stage functions.  proc is what popen_wrapper returns for the   *)
(* one run the stage makes.                                                *)

\* The frame of a stage that returns what the classifier returns.
Returning(args, r) ==
  [args |-> args, tool |-> r, outcome |-> r.outcome, value |-> r.value,
   error |-> r.error]

\* The frame of a stage that binds the classifier's value to _ and falls
\* off its end.
Discarding(args, r) ==
  [args |-> args, tool |-> r, outcome |-> r.outcome,
   value |-> IF r.outcome = "returned" THEN None ELSE Nothing,
   error |-> r.error]

\* A variant that strips the catalog header before returning.
extract_translations_stripping(source_file_path, domain, keywords, no_wrap, no_location, xgettext_extra_args, proc) ==
  LET args == _make_xgettext_args(source_file_path, domain, keywords,
                                  no_wrap, no_location, xgettext_extra_args)
      r    == get_gettext_tool_output(Tokens(args), proc)
  IN  [args |-> args, tool |-> r, outcome |-> r.outcome,
       value |-> IF r.outcome = "returned"
                   THEN Str(strip_translations_header(r.value.chars))
                   ELSE Nothing,
       error |-> r.error]

extract_translations(source_file_path, domain, keywords, no_wrap, no_location, xgettext_extra_args, proc) ==
  LET args == _make_xgettext_args(source_file_path, domain, keywords,
                                  no_wrap, no_location, xgettext_extra_args)
  IN  Returning(args, get_gettext_tool_output(Tokens(args), proc))

extract_unique_messages(pot_file_path, no_wrap, no_location, msguniq_extra_args, proc) ==
  LET args == _make_msguniq_args(pot_file_path, no_wrap, no_location,
                                 msguniq_extra_args)
  IN  Returning(args, get_gettext_tool_output(Tokens(args), proc))

merge_new_and_existing_translations(po_file_path, pot_file_path, no_wrap, no_location, msgmerge_extra_args, proc) ==
  LET args == _make_msgmerge_args(po_file_path, pot_file_path, no_wrap,
                                  no_location, msgmerge_extra_args)
  IN  Returning(args, get_gettext_tool_output(Tokens(args), proc))

\* A variant that catches the tool failure together with the text it drops.
remove_obsolete_swallowing(po_file_path, no_wrap, no_location, msgattrib_extra_args, proc) ==
  LET args == _make_msgattrib_args(po_file_path, no_wrap, no_location,
                                   msgattrib_extra_args)
      r    == get_gettext_tool_output(Tokens(args), proc)
  IN  [args |-> args, tool |-> r, outcome |-> "returned", value |-> None,
       error |-> NoError]

remove_obsolete_translations(po_file_path, no_wrap, no_location, msgattrib_extra_args, proc) ==
  LET args == _make_msgattrib_args(po_file_path, no_wrap, no_location,
                                   msgattrib_extra_args)
  IN  Discarding(args, get_gettext_tool_output(Tokens(args), proc))

compile_translations(mo_file_path, po_file_path, fuzzy, msgfmt_extra_args, proc) ==
  LET args == _make_msgfmt_args(mo_file_path, po_file_path, fuzzy,
                                msgfmt_extra_args)
  IN  Discarding(args, get_gettext_tool_output(Tokens(args), proc))

----------------------------------------------------------------------------
(* Inputs *)

Domains      == {"messages", "django"}
KeywordNames == {"_", "gettext"}
ExtraArgs    == {"--sort-output", "--width=80"}

KeywordLists == SeqsUpTo(KeywordNames, MaxKeywords)
ExtraLists   == SeqsUpTo(ExtraArgs, MaxExtras)

SourcePaths == {[name |-> "app.py"], [name |-> "pkg/views.py"]}
PotPaths    == {[name |-> "messages.pot"], [name |-> "locale/django.pot"]}
PoPaths     == {[name |-> "/tmp/x.po"], [name |-> "in.po"]}
MoPaths     == {[name |-> "/tmp/x.mo"], [name |-> "out.mo"]}

Stdouts ==
  { <<>>,
    <<"a">>,
    <<"a", LF, LF, "a", LF>>,
    <<"a", CR, LF, CR, LF, "a", CR, LF>> }
Stderrs  == {"", "warn", "error"}
Statuses == {-1} \cup (0..MaxStatus)

\* What popen_wrapper can return: it never raises on a non-zero status.
ProcessResults == [stdout : Stdouts, stderr : Stderrs, status : Statuses]

----------------------------------------------------------------------------
(* The sequential caller: validate, then extract, deduplicate, merge,      *)
(* clean, compile; an error of a stage ends the run.                       *)

StageOrder == <<"extract", "deduplicate", "merge", "clean", "compile">>
Stages     == {StageOrder[i] : i \in DOMAIN StageOrder}
StageIndex(stage) == CHOOSE i \in DOMAIN StageOrder : StageOrder[i] = stage

NextStage(stage) ==
  IF StageIndex(stage) = Len(StageOrder) THEN "done"
  ELSE StageOrder[StageIndex(stage) + 1]

StripIdle ==
  /\ text = <<>>
  /\ stripped = <<>>
  /\ restripped = <<>>
  /\ phase = "idle"

Init ==
  /\ installed \in SUBSET Executables
  /\ probed = <<>>
  /\ pc = "validate"
  /\ failedAt = "none"
  /\ runs = [s \in Stages |-> 0]
  /\ call = [stage |-> "none"]
  /\ StripIdle

ValidateGettextToolsExist ==
  /\ pc = "validate"
  /\ LET r == validate_gettext_tools_exist(installed)
     IN  /\ probed' = r.probed
         /\ call' = [stage |-> "validate", outcome |-> r.outcome,
                     error |-> r.error]
         /\ pc' = IF r.outcome = "raised" THEN "toolchain_missing"
                                          ELSE StageOrder[1]
  /\ UNCHANGED <<installed, failedAt, runs>>
  /\ UNCHANGED stripVars

\* The caller makes the stage call and gets its frame: an error of the stage
\* ends the run.
Finish(stage, opts, proc, frame) ==
  /\ call' = [stage |-> stage, opts |-> opts, proc |-> proc,
              args |-> frame.args, tool |-> frame.tool,
              outcome |-> frame.outcome, value |-> frame.value,
              error |-> frame.error]
  /\ runs' = [runs EXCEPT ![stage] = @ + Len(frame.tool.popen)]
  /\ pc' = IF frame.outcome = "raised" THEN "aborted" ELSE pc
  /\ failedAt' = IF frame.outcome = "raised" THEN stage ELSE failedAt
  /\ UNCHANGED <<installed, probed>>
  /\ UNCHANGED stripVars

ExtractTranslations ==
  /\ pc = "extract" /\ call.stage # "extract"
  /\ \E source_file_path \in SourcePaths, domain \in Domains,
        keywords \in KeywordLists, no_wrap \in BOOLEAN,
        no_location \in BOOLEAN, extra_args \in ExtraLists,
        proc \in ProcessResults :
       Finish("extract",
              [source_file_path |-> source_file_path, domain |-> domain,
               keywords |-> keywords, no_wrap |-> no_wrap,
               no_location |-> no_location, extra_args |-> extra_args],
              proc,
              extract_translations(source_file_path, domain, keywords,
                                   no_wrap, no_location, extra_args, proc))

ExtractUniqueMessages ==
  /\ pc = "deduplicate" /\ call.stage # "deduplicate"
  /\ \E pot_file_path \in PotPaths, no_wrap \in BOOLEAN,
        no_location \in BOOLEAN, extra_args \in ExtraLists,
        proc \in ProcessResults :
       Finish("deduplicate",
              [pot_file_path |-> pot_file_path, no_wrap |-> no_wrap,
               no_location |-> no_location, extra_args |-> extra_args],
              proc,
              extract_unique_messages(pot_file_path, no_wrap, no_location,
                                      extra_args, proc))

MergeNewAndExistingTranslations ==
  /\ pc = "merge" /\ call.stage # "merge"
  /\ \E po_file_path \in PoPaths, pot_file_path \in PotPaths,
        no_wrap \in BOOLEAN, no_location \in BOOLEAN,
        extra_args \in ExtraLists, proc \in ProcessResults :
       Finish("merge",
              [po_file_path |-> po_file_path, pot_file_path |-> pot_file_path,
               no_wrap |-> no_wrap, no_location |-> no_location,
               extra_args |-> extra_args],
              proc,
              merge_new_and_existing_translations(
                po_file_path, pot_file_path, no_wrap, no_location,
                extra_args, proc))

RemoveObsoleteTranslations ==
  /\ pc = "clean" /\ call.stage # "clean"
  /\ \E po_file_path \in PoPaths, no_wrap \in BOOLEAN,
        no_location \in BOOLEAN, extra_args \in ExtraLists,
        proc \in ProcessResults :
       Finish("clean",
              [po_file_path |-> po_file_path, no_wrap |-> no_wrap,
               no_location |-> no_location, extra_args |-> extra_args],
              proc,
              remove_obsolete_translations(po_file_path, no_wrap,
                                           no_location, extra_args, proc))

CompileTranslations ==
  /\ pc = "compile" /\ call.stage # "compile"
  /\ \E mo_file_path \in MoPaths, po_file_path \in PoPaths,
        fuzzy \in BOOLEAN, extra_args \in ExtraLists,
        proc \in ProcessResults :
       Finish("compile",
              [mo_file_path |-> mo_file_path, po_file_path |-> po_file_path,
               fuzzy |-> fuzzy, extra_args |-> extra_args],
              proc,
              compile_translations(mo_file_path, po_file_path, fuzzy,
                                   extra_args, proc))

\* The caller takes what the stage returned and goes on to the next stage.
Proceed ==
  /\ pc \in Stages
  /\ call.stage = pc
  /\ call.outcome = "returned"
  /\ pc' = NextStage(pc)
  /\ call' = [stage |-> "none"]
  /\ UNCHANGED <<installed, probed, failedAt, runs>>
  /\ UNCHANGED stripVars

Next ==
  \/ ValidateGettextToolsExist
  \/ ExtractTranslations
  \/ ExtractUniqueMessages
  \/ MergeNewAndExistingTranslations
  \/ RemoveObsoleteTranslations
  \/ CompileTranslations
  \/ Proceed

Spec == Init /\ [][Next]_vars

----------------------------------------------------------------------------
(* The caller of strip_translations_header *)

PipelineIdle ==
  /\ installed = {}
  /\ probed = <<>>
  /\ pc = "idle"
  /\ failedAt = "none"
  /\ runs = [s \in Stages |-> 0]
  /\ call = [stage |-> "none"]

InitStrip ==
  /\ PipelineIdle
  /\ text \in Texts(MaxLen)
  /\ stripped = <<>>
  /\ restripped = <<>>
  /\ phase = "input"

Strip ==
  /\ phase = "input"
  /\ stripped' = strip_translations_header(text)
  /\ phase' = "stripped"
  /\ UNCHANGED <<text, restripped>>
  /\ UNCHANGED pipelineVars

StripAgain ==
  /\ phase = "stripped"
  /\ restripped' = strip_translations_header(stripped)
  /\ phase' = "restripped"
  /\ UNCHANGED <<text, stripped>>
  /\ UNCHANGED pipelineVars

NextStrip == Strip \/ StripAgain

SpecStrip == InitStrip /\ [][NextStrip]_vars

----------------------------------------------------------------------------
(* Properties of the classifier, the builders and the stages (Spec)        *)

InStage == call.stage \in Stages

Fatal(proc) == proc.status # 0 /\ proc.stderr # ""

Normalized(stdout) == IF stdout = <<>> THEN <<>> ELSE normalize_eols(stdout)

\* C1: get_gettext_tool_output raises if and only if the status is non-zero
\* and stderr is non-empty; a non-zero status with empty stderr does not
\* raise; the error carries the tool name (args[0]), the status and the
\* stderr text.
C1_RaisesIffStatusAndStderr ==
  InStage =>
    /\ (call.tool.outcome = "raised") <=> Fatal(call.proc)
    /\ (call.proc.status # 0 /\ call.proc.stderr = "")
         => call.tool.outcome = "returned"
    /\ (call.tool.outcome = "raised")
         => call.tool.error = [kind   |-> "RuntimeError",
                               tool   |-> call.args[1].tok,
                               status |-> call.proc.status,
                               text   |-> call.proc.stderr]

C1_Witness ==
  /\ InStage
  /\ call.proc = [stdout |-> <<>>, stderr |-> "error", status |-> 1]
  /\ call.tool.outcome = "raised"
  /\ call.tool.error.status = 1
  /\ call.tool.error.text = "error"

\* C2: stderr goes to print_err exactly once if and only if stderr is
\* non-empty and the status is 0; the call then returns, with the value it
\* returns for the same stdout and empty stderr (the normalized stdout).
\* With empty stderr, or when the run is fatal, print_err gets nothing.
C2_WarningsDoNotInterrupt ==
  InStage =>
    LET warning == call.proc.stderr # "" /\ call.proc.status = 0
    IN  /\ call.tool.warned =
             IF warning THEN <<call.proc.stderr>> ELSE <<>>
        /\ warning =>
             /\ call.tool.outcome = "returned"
             /\ call.tool.value =
                  get_gettext_tool_output(
                    Tokens(call.args),
                    [call.proc EXCEPT !.stderr = ""]).value
             /\ call.tool.value = Str(Normalized(call.proc.stdout))

C2_Witness ==
  /\ InStage
  /\ call.proc = [stdout |-> <<"a", CR, LF, CR, LF, "a", CR, LF>>,
                  stderr |-> "warn", status |-> 0]
  /\ call.tool.warned = <<"warn">>
  /\ call.tool.outcome = "returned"
  /\ call.tool.value = Str(<<"a", LF, LF, "a", LF>>)

Opt(b, flag) == IF b THEN <<flag>> ELSE <<>>

Template(stage, o) ==
  CASE stage = "extract" ->
         <<"xgettext", "-d", o.domain, "--from-code=UTF-8",
           "--add-comments=Translators", "--output=-">>
         \o [i \in 1..Len(o.keywords) |-> "--keyword=" \o o.keywords[i]]
         \o Opt(o.no_wrap, "--no-wrap") \o Opt(o.no_location, "--no-location")
         \o o.extra_args
         \o <<stringify_path(o.source_file_path)>>
    [] stage = "deduplicate" ->
         <<"msguniq", "--to-code=utf-8">>
         \o Opt(o.no_wrap, "--no-wrap") \o Opt(o.no_location, "--no-location")
         \o o.extra_args
         \o <<stringify_path(o.pot_file_path)>>
    [] stage = "merge" ->
         <<"msgmerge", "-q", "--previous">>
         \o Opt(o.no_wrap, "--no-wrap") \o Opt(o.no_location, "--no-location")
         \o o.extra_args
         \o <<stringify_path(o.po_file_path), stringify_path(o.pot_file_path)>>
    [] stage = "clean" ->
         <<"msgattrib", "--no-obsolete">>
         \o Opt(o.no_wrap, "--no-wrap") \o Opt(o.no_location, "--no-location")
         \o o.extra_args
         \o <<"-o", stringify_path(o.po_file_path),
              stringify_path(o.po_file_path)>>
    [] stage = "compile" ->
         <<"msgfmt", "--check-format">>
         \o Opt(o.fuzzy, "-f")
         \o o.extra_args
         \o <<"-o", stringify_path(o.mo_file_path),
              stringify_path(o.po_file_path)>>

\* C3: each of the five builders returns the tool name followed by the
\* documented template, optional flags exactly when their boolean is true,
\* one --keyword=<k> per keyword in order, msgattrib with the same path as
\* output and input.
C3_BuildersFollowTemplates ==
  InStage => Tokens(call.args) = Template(call.stage, call.opts)

C3_Witness ==
  /\ call.stage = "compile"
  /\ call.opts.fuzzy
  /\ Tokens(call.args) =
       <<"msgfmt", "--check-format", "-f", "-o", "out.mo", "in.po">>

IsOutputMarker(arg) == arg.kind = "flag" /\ arg.tok = "-o"

\* C4 as stated: in every built list the extras come after all structured
\* flags and before any path argument, and the paths come after all flags.
C4_ExtrasAfterAllFlags ==
  InStage =>
    \A i, j \in DOMAIN call.args :
      /\ (call.args[i].kind = "flag" /\ call.args[j].kind = "extra") => i < j
      /\ (call.args[i].kind = "extra" /\ call.args[j].kind = "path") => i < j
      /\ (call.args[i].kind = "flag" /\ call.args[j].kind = "path") => i < j

\* C4 as amended: the extras come after every structured flag but the -o
\* output marker of msgattrib and msgfmt, and before every path; the paths
\* come last, after all flags; the -o marker comes after the extras, right
\* before the two paths.
C4_ExtrasBeforeOutputMarkerAndPaths ==
  InStage =>
    \A i, j \in DOMAIN call.args :
      /\ (/\ call.args[i].kind = "flag"
          /\ ~IsOutputMarker(call.args[i])
          /\ call.args[j].kind = "extra") => i < j
      /\ (call.args[i].kind = "extra" /\ call.args[j].kind = "path") => i < j
      /\ (call.args[i].kind # "path" /\ call.args[j].kind = "path") => i < j
      /\ IsOutputMarker(call.args[i]) =>
           /\ call.stage \in {"clean", "compile"}
           /\ i = Len(call.args) - 2
           /\ call.args[j].kind = "extra" => j < i

C4_Witness ==
  /\ call.stage = "clean"
  /\ Tokens(call.args) =
       <<"msgattrib", "--no-obsolete", "--no-wrap", "--sort-output",
         "--width=80", "-o", "/tmp/x.po", "/tmp/x.po">>
  /\ Kinds(call.args) =
       <<"tool", "flag", "flag", "extra", "extra", "flag", "path", "path">>

\* C5 as stated: a successful extract_translations returns the classified
\* output with the catalog header stripped.
C5_ExtractStripsHeader ==
  (call.stage = "extract" /\ call.outcome = "returned") =>
    call.value = Str(strip_translations_header(call.tool.value.chars))

\* C5 as amended: a successful extract_translations returns the classified
\* (normalized) stdout as it is, header included; it does not apply
\* strip_translations_header.
C5_ExtractReturnsClassifiedOutput ==
  (call.stage = "extract" /\ call.outcome = "returned") =>
    /\ call.value = call.tool.value
    /\ call.value = Str(Normalized(call.proc.stdout))

C5_Witness ==
  /\ call.stage = "extract"
  /\ call.outcome = "returned"
  /\ call.proc.stdout = <<"a", CR, LF, CR, LF, "a", CR, LF>>
  /\ call.value = Str(<<"a", LF, LF, "a", LF>>)
  /\ strip_translations_header(call.value.chars) # call.value.chars

RequiredInOrder == <<"xgettext", "msguniq", "msgmerge", "msgattrib", "msgfmt">>

\* C8: validate_gettext_tools_exist probes xgettext, msguniq, msgmerge,
\* msgattrib, msgfmt in this order; it returns silently if and only if all
\* five are resolvable; otherwise its error names the first unresolvable
\* one, with the version hint, and nothing after the first miss is probed.
C8_ValidateNamesFirstMissing ==
  pc # "validate" =>
    LET missing == {i \in DOMAIN RequiredInOrder :
                      RequiredInOrder[i] \notin installed}
        first   == CHOOSE i \in missing : \A j \in missing : i <= j
    IN  /\ (pc # "toolchain_missing") <=> (missing = {})
        /\ missing = {} =>
             /\ probed = RequiredInOrder
             /\ call.stage = "validate" =>
                  call.outcome = "returned" /\ call.error = NoError
        /\ missing # {} =>
             /\ probed = SubSeq(RequiredInOrder, 1, first)
             /\ call = [stage   |-> "validate",
                        outcome |-> "raised",
                        error   |-> [kind |-> "OSError",
                                     executable |-> RequiredInOrder[first],
                                     hint |-> "gettext tools 0.15 or newer"]]

C8_Witness ==
  /\ pc = "toolchain_missing"
  /\ installed = {"xgettext", "msgattrib", "msgfmt"}
  /\ probed = <<"xgettext", "msguniq">>
  /\ call.error.executable = "msguniq"

\* C9: a call of a stage function makes exactly one process run and ends
\* with an error if and only if the run is fatal; the error is the
\* classifier's own, also in the clean and compile stages; in the sequential
\* run no stage after a failed stage is executed.
C9_OneRunAndErrorsPropagate ==
  /\ \A s \in Stages : runs[s] <= 1
  /\ InStage =>
       /\ runs[call.stage] = 1
       /\ call.tool.popen = <<Tokens(call.args)>>
       /\ (call.outcome = "raised") <=> Fatal(call.proc)
       /\ call.error = call.tool.error
       /\ Fatal(call.proc) =>
            /\ call.error.kind = "RuntimeError"
            /\ pc = "aborted"
            /\ failedAt = call.stage
       /\ ~Fatal(call.proc) => call.error = NoError /\ pc = call.stage
  /\ (failedAt # "none") <=> (pc = "aborted")
  /\ pc = "aborted" =>
       /\ failedAt \in Stages
       /\ \A s \in Stages :
            runs[s] = IF StageIndex(s) <= StageIndex(failedAt) THEN 1 ELSE 0
       /\ ~ENABLED Next

C9_Witness ==
  /\ pc = "aborted"
  /\ failedAt = "clean"
  /\ call.stage = "clean"
  /\ call.error.kind = "RuntimeError"
  /\ runs["merge"] = 1
  /\ runs["clean"] = 1
  /\ runs["compile"] = 0

----------------------------------------------------------------------------
(* Properties of strip_translations_header (SpecStrip)                     *)

\* text is a header of one or more non-empty lines, each ended by "\n",
\* followed by the blank line text[k + 1] = "\n" and the body after it.
HeaderEndsAt(x, k) ==
  /\ k >= 2
  /\ k + 1 <= Len(x)
  /\ x[k] = LF
  /\ x[k + 1] = LF
  /\ x[1] # LF
  /\ \A i \in 1..k : x[i] # CR
  /\ \A i \in 1..(k - 1) : ~(x[i] = LF /\ x[i + 1] = LF)

BodyAfter(x, k) == SubSeq(x, k + 2, Len(x))

\* s without its final "\n", if it ends in one
ChopNewline(s) ==
  IF s # <<>> /\ s[Len(s)] = LF THEN SubSeq(s, 1, Len(s) - 1) ELSE s

HasNoBreakCR(s) == \A i \in DOMAIN s : s[i] # CR

\* C6 as stated: for n >= 1 non-empty header lines, a blank line and a body
\* B, the result is exactly B.
C6_StripYieldsBody ==
  phase # "input" =>
    \A k \in 1..Len(text) :
      HeaderEndsAt(text, k) => stripped = BodyAfter(text, k)

\* C6 as amended: for n >= 1 non-empty header lines, a blank line and a body
\* B, the header lines are removed and the blank line is kept: the result is
\* the blank line followed by the lines of B, joined by "\n" with no final
\* newline; for a non-empty B with "\n" line ends this is "\n" followed by B
\* without its final newline.
C6_StripKeepsBlankLineDropsFinalNewline ==
  phase # "input" =>
    \A k \in 1..Len(text) :
      HeaderEndsAt(text, k) =>
        LET B == BodyAfter(text, k)
        IN  /\ stripped = join(<< <<>> >> \o splitlines(B))
            /\ (B # <<>> /\ HasNoBreakCR(B)) =>
                 stripped = <<LF>> \o ChopNewline(B)
            /\ B = <<>> => stripped = <<>>

C6_Witness ==
  /\ phase = "stripped"
  /\ text = <<"a", LF, "a", LF, LF, "a", LF>>
  /\ stripped = <<LF, "a">>

NoLeadingBlock(x) == x = <<>> \/ x[1] \in {LF, CR}

\* C7 as stated: stripping twice equals stripping once, and a text that is
\* empty or starts with a blank line is returned unchanged.
C7_StripIdempotent ==
  phase = "restripped" =>
    /\ restripped = stripped
    /\ NoLeadingBlock(text) => stripped = text

\* C7 as amended: stripping twice equals stripping once except for a final
\* newline, which the second pass removes; a text that is empty or starts
\* with a blank line keeps all its lines but comes back with its line ends
\* rewritten to "\n" and its final line end removed (unchanged exactly when
\* it has only "\n" line ends and does not end in one).
C7_StripIdempotentUpToFinalNewline ==
  phase = "restripped" =>
    /\ restripped = ChopNewline(stripped)
    /\ stripped = <<>> \/ stripped[Len(stripped)] # LF => restripped = stripped
    /\ NoLeadingBlock(text) =>
         /\ stripped = join(splitlines(text))
         /\ HasNoBreakCR(text) => stripped = ChopNewline(text)

C7_Witness ==
  /\ phase = "restripped"
  /\ text = <<"a", LF, LF, LF>>
  /\ stripped = <<LF>>
  /\ restripped = <<>>

\* C10: if the input has no blank line (every line is non-empty, or the
\* input is empty), the result is the empty string.
\* x[i] ends a line: it is "\n", or a "\r" that no "\n" follows.
EndsLine(x, i) ==
  \/ x[i] = LF
  \/ x[i] = CR /\ ~(i < Len(x) /\ x[i + 1] = LF)

\* No line of x is empty: x does not start with a line end, and no line end
\* follows the end of a line.
NoBlankLine(x) ==
  /\ x # <<>> => x[1] \notin {LF, CR}
  /\ \A i \in 1..(Len(x) - 1) : EndsLine(x, i) => x[i + 1] \notin {LF, CR}

C10_NoBlankLineDropsEverything ==
  phase # "input" => (NoBlankLine(text) => stripped = <<>>)

C10_Witness ==
  /\ phase = "stripped"
  /\ text = <<"a", LF, "a", CR, LF, "a">>
  /\ stripped = <<>>

====
